---- MODULE Spec2Model ----
(***************************************************************************)
(* createEmitter() of lib/create-emitter.ts: a queue of settle tasks that  *)
(* is drained one task at a time, an initialize gate, and a registry of    *)
(* subscriptions notified after every settle.                              *)
(*                                                                         *)
(* One step of the model is one run-to-completion turn of the JavaScript   *)
(* event loop: a call made from outside the emitter, or the continuation   *)
(* of one await inside it.                                                 *)
(***************************************************************************)
EXTENDS Integers, Sequences, FiniteSets, TLC

\* Bounds of the model.
MaxCalls == 3
MaxSubs == 2
MaxUnsubscribe == 1
\* Calls of wrapped members, of subscribe() and of unsubscribe() together.
MaxOps == 4
\* Reads of a property of a newly built emitter.
MaxGets == 1

Keys == {"initialize", "first", "second"}

\* Object.prototype.toString.call(value).slice(8, -1).toLowerCase(): the tag of
\* "[object <Tag>]", lower-cased.
LowerCase ==
  [Undefined |-> "undefined", String |-> "string",
   Function |-> "function", AsyncFunction |-> "asyncfunction",
   GeneratorFunction |-> "generatorfunction"]

typeOf(value) == LowerCase[value.tag]

\* The configurations explored: a synchronous member first, an asynchronous
\* member second, and initialize absent, a static string, a synchronous or an
\* asynchronous function.
Configs ==
  { c \in [Keys -> {[tag |-> t] : t \in DOMAIN LowerCase}] :
      /\ c["first"].tag = "Function"
      /\ c["second"].tag = "AsyncFunction"
      /\ c["initialize"].tag # "GeneratorFunction" }

\* The subscription records explored. member: the member name the record has
\* a callback for ("none": no member callback); all, catch: whether the
\* reserved callbacks are defined; mode: what every callback of the record
\* does when invoked: returns ("ok"), throws synchronously ("throw"), or
\* returns a promise that settles in a later turn ("async").
Shapes ==
  { [member |-> "first", all |-> TRUE, catch |-> TRUE, mode |-> "ok"],
    [member |-> "second", all |-> TRUE, catch |-> TRUE, mode |-> "throw"],
    [member |-> "first", all |-> TRUE, catch |-> TRUE, mode |-> "async"],
    [member |-> "second", all |-> FALSE, catch |-> FALSE, mode |-> "ok"] }

\* What one execution of the underlying callable for call c produced: its
\* return value (ok) or the error it threw.
Result(c, ok) == [ok |-> ok, of |-> c]

NoValue == [ok |-> TRUE, of |-> 0]

\* new Error('initialize() can only be called once.')
OnceError == [ok |-> FALSE, of |-> 0]

VARIABLES
  config,         \* the configuration object
  queue,          \* const queue: the pending tasks
  subscriptions,  \* the Map of subscriptions, in insertion order
  enabled, flushing, initialized,
  calls,          \* the calls of wrapped members, in the order issued
  promise,        \* the promise each call returned, if any
  drains,         \* the suspended invocations of dequeue()
  pending,        \* observer callbacks whose promise has not settled
  handles,        \* per subscribe() call, how often its unsubscribe() ran
  log             \* what the emitter did, in order

vars ==
  <<config, queue, subscriptions, enabled, flushing, initialized, calls,
    promise, drains, pending, handles, log>>

RECURSIVE Sum(_)
Sum(seq) == IF Len(seq) = 0 THEN 0 ELSE Head(seq) + Sum(Tail(seq))

\* The calls made from outside so far.
Ops == Len(calls) + Len(handles) + Sum(handles)

\* The part of the state the emitter's own code changes while it runs.
Current ==
  [queue |-> queue, subscriptions |-> subscriptions, flushing |-> flushing,
   initialized |-> initialized, promise |-> promise, drains |-> drains,
   pending |-> pending, log |-> log]

Commit(s) ==
  /\ queue' = s.queue
  /\ subscriptions' = s.subscriptions
  /\ flushing' = s.flushing
  /\ initialized' = s.initialized
  /\ promise' = s.promise
  /\ drains' = s.drains
  /\ pending' = s.pending
  /\ log' = s.log

Init ==
  /\ config \in Configs
  /\ queue = <<>>
  /\ subscriptions = <<>>
  /\ enabled = TRUE
  /\ flushing = FALSE
  /\ initialized = FALSE
  /\ calls = <<>>
  /\ promise = <<>>
  /\ drains = <<>>
  /\ pending = {}
  /\ handles = <<>>
  /\ log = <<>>

\* ---------------------------------------------------------------- helpers

\* The subscriptions whose unsubscribe() has returned.
Unsubscribed == {h \in DOMAIN handles : handles[h] > 0}

\* The settle closure of call c of member k. It carries, for as long as the
\* task exists, the circumstances of the call: the enabled flag (on) and the
\* subscriptions already unsubscribed (gone); and, while the underlying
\* callable is awaited, the enabled flag as it was when the task was started
\* (ran). The emitter never reads them.
SettleTask(c, k) ==
  [type |-> "settle", call |-> c, key |-> k, arg |-> c, sub |-> 0,
   on |-> enabled, gone |-> Unsubscribed, ran |-> FALSE]

\* The task unsubscribe() queues while flushing: () => subscriptions.delete(key)
RemoveTask(id) ==
  [type |-> "remove", call |-> 0, key |-> "", arg |-> 0, sub |-> id,
   on |-> FALSE, gone |-> {}, ran |-> FALSE]

\* An entry of the log with the arguments of the call made last, as if args
\* were kept in one variable shared by all the closures.
EventSharedArgs(ev, t, sub, val) ==
  [ev |-> ev, call |-> t.call, sub |-> sub, key |-> t.key, val |-> val,
   arg |-> Len(calls), on |-> FALSE]

\* One entry of the log: what happened (ev), for which call's settle task, and
\* the data passed along: the member name, the value and the call arguments.
\* on: for the return of the underlying callable, what `if (enabled)` read.
Event(ev, t, sub, val) ==
  [ev |-> ev, call |-> t.call, sub |-> sub, key |-> t.key, val |-> val,
   arg |-> t.arg, on |-> FALSE]

\* The underlying callable returned, and settle() reads enabled.
Completed(ev, t, res) == [Event(ev, t, 0, res) EXCEPT !.on = enabled]

Emit(s, e) == [s EXCEPT !.log = Append(@, e)]

\* The task as dequeue() holds it once settle() has read enabled: the flag as
\* it was when the call was issued or started is of no use from then on.
Past(t, phase) ==
  IF phase = "value" THEN t ELSE [t EXCEPT !.on = FALSE, !.ran = FALSE]

\* The task as dequeue() starts it.
Started(t) == [t EXCEPT !.ran = enabled]

\* An invocation of dequeue() suspended in `await fn?.()`.
Suspend(s, t, phase, idx, res) ==
  [s EXCEPT !.drains =
     Append(@, [task |-> Past(t, phase), phase |-> phase, idx |-> idx,
                result |-> res])]

RemoveAt(seq, i) == SubSeq(seq, 1, i - 1) \o SubSeq(seq, i + 1, Len(seq))

\* subscriptions.delete(key)
Delete(subs, id) == SelectSeq(subs, LAMBDA e : e.id # id)

\* The member callbacks looked up without the key: any of them is taken.
DefinesAnyMember(e, t, kind) ==
  CASE kind = "member" -> TRUE
    [] kind = "all" -> e.sub.all
    [] kind = "catch" -> e.sub.catch

\* Whether subscription entry e defines the callback: subscription?.[key],
\* subscription?.all, subscription?.catch.
Defines(e, t, kind) ==
  CASE kind = "member" -> e.sub.member = t.key
    [] kind = "all" -> e.sub.all
    [] kind = "catch" -> e.sub.catch

\* A call of one callback of entry e with (val, ...args) or (key, val, ...args).
\* pending holds, per settle and subscription, whether promises its callbacks
\* returned are unsettled: they are awaited together or not at all. The
\* synchronous settle() drops what the callbacks return: those promises settle
\* whenever they do, with nothing of the emitter waiting for them. waits: the
\* call of a wrapped member whose promise the callback awaits, if any.
Invoke(s, t, e, kind, val) ==
  LET s1 == Emit(s, Event(kind, t, e.id, val))
  IN  IF e.sub.mode = "async"
      THEN [s1 EXCEPT !.pending = @ \cup {[call |-> t.call, sub |-> e.id, waits |-> 0]}]
      ELSE s1

\* subscription?.[key]?.(result, ...args) and then
\* subscription?.all?.(key, result, ...args); the second is not reached when
\* the first throws.
NotifySuccess(s, t, e, res) ==
  LET member == Defines(e, t, "member")
      s1 == IF member THEN Invoke(s, t, e, "member", res) ELSE s
  IN  IF ~(member /\ e.sub.mode = "throw") /\ Defines(e, t, "all")
      THEN Invoke(s1, t, e, "all", res)
      ELSE s1

\* Whether the two calls above threw synchronously.
SuccessThrew(e, t) ==
  e.sub.mode = "throw" /\ (Defines(e, t, "member") \/ Defines(e, t, "all"))

\* The catch callback gated like the success callbacks: `if (enabled)`.
NotifyCatchIfEnabled(s, t, e, res) ==
  IF enabled /\ Defines(e, t, "catch") THEN Invoke(s, t, e, "catch", res) ELSE s

\* subscription?.catch?.(key, error, ...args)
NotifyCatch(s, t, e, res) ==
  IF Defines(e, t, "catch") THEN Invoke(s, t, e, "catch", res) ELSE s

CatchThrew(e, t) == e.sub.mode = "throw" /\ Defines(e, t, "catch")

\* ------------------------------------------------- the synchronous settle

\* The success loop inside one try block: the first callback that throws ends
\* the loop.
RECURSIVE SyncObserversAbort(_, _, _, _)
SyncObserversAbort(s, t, res, i) ==
  IF i > Len(s.subscriptions) THEN s
  ELSE IF SuccessThrew(s.subscriptions[i], t)
  THEN NotifySuccess(s, t, s.subscriptions[i], res)
  ELSE SyncObserversAbort(NotifySuccess(s, t, s.subscriptions[i], res), t, res, i + 1)

RECURSIVE SyncObservers(_, _, _, _)
SyncObservers(s, t, res, i) ==
  IF i > Len(s.subscriptions) THEN s
  ELSE SyncObservers(NotifySuccess(s, t, s.subscriptions[i], res), t, res, i + 1)

RECURSIVE SyncCatchers(_, _, _, _)
SyncCatchers(s, t, res, i) ==
  IF i > Len(s.subscriptions) THEN s
  ELSE SyncCatchers(NotifyCatch(s, t, s.subscriptions[i], res), t, res, i + 1)

\* settle() of enqueueSynchronousMethod without `if (enabled)`.
SyncSettleUngated(s, t, ok) ==
  LET res == Result(t.call, ok)
      s1 == Emit(s, Event("exec", t, 0, NoValue))
  IN  IF ok
      THEN LET s2 == Emit(s1, Completed("returned", t, res))
               s3 == SyncObservers(s2, t, res, 1)
           IN  [returned |-> TRUE, state |-> Emit(s3, Event("end", t, 0, res))]
      ELSE LET s2 == Emit(s1, Event("threw", t, 0, res))
               s3 == SyncCatchers(s2, t, res, 1)
           IN  [returned |-> FALSE, state |-> Emit(s3, Event("end", t, 0, res))]

\* settle() of enqueueSynchronousMethod; ok: whether value(...args) returns.
\* returned: whether settle() returns (TRUE) or throws (FALSE).
SyncSettle(s, t, ok) ==
  LET res == Result(t.call, ok)
      s1 == Emit(s, Event("exec", t, 0, NoValue))
  IN  IF ok
      THEN LET s2 == Emit(s1, Completed("returned", t, res))
               s3 == IF enabled THEN SyncObservers(s2, t, res, 1) ELSE s2
           IN  [returned |-> TRUE, state |-> Emit(s3, Event("end", t, 0, res))]
      ELSE LET s2 == Emit(s1, Event("threw", t, 0, res))
               s3 == SyncCatchers(s2, t, res, 1)
           IN  [returned |-> FALSE, state |-> Emit(s3, Event("end", t, 0, res))]

\* ------------------------------------------------ the asynchronous settle

\* resolve(result), after which settle() returns.
Resolve(s, t, res) ==
  LET s1 == [s EXCEPT !.promise[t.call] = [state |-> "resolved", val |-> res]]
      s2 == Emit(Emit(s1, Event("resolve", t, 0, res)), Event("end", t, 0, res))
  IN  Suspend(s2, t, "settled", 0, res)

\* reject(error), after which settle() returns.
Reject(s, t, res) ==
  LET s1 == [s EXCEPT !.promise[t.call] = [state |-> "rejected", val |-> res]]
      s2 == Emit(Emit(s1, Event("reject", t, 0, res)), Event("end", t, 0, res))
  IN  Suspend(s2, t, "settled", 0, res)

\* The success loop reading enabled again before every entry.
RECURSIVE AsyncObserversRecheck(_, _, _, _)
AsyncObserversRecheck(s, t, res, i) ==
  IF i > Len(s.subscriptions) \/ ~enabled THEN Resolve(s, t, res)
  ELSE LET e == s.subscriptions[i]
           s1 == NotifySuccess(s, t, e, res)
       IN  IF SuccessThrew(e, t)
           THEN AsyncObserversRecheck(s1, t, res, i + 1)
           ELSE Suspend(s1, t, "observers", i, res)

\* The success loop from entry i up to its next await: the await of
\* Promise.allSettled([...]) is not reached for an entry whose callback throws
\* while the array is built, and the loop goes on to the next entry at once.
RECURSIVE AsyncObservers(_, _, _, _)
AsyncObservers(s, t, res, i) ==
  IF i > Len(s.subscriptions) THEN Resolve(s, t, res)
  ELSE LET e == s.subscriptions[i]
           s1 == NotifySuccess(s, t, e, res)
       IN  IF SuccessThrew(e, t)
           THEN AsyncObservers(s1, t, res, i + 1)
           ELSE Suspend(s1, t, "observers", i, res)

\* The catch loop from entry i up to its next await.
RECURSIVE AsyncCatchers(_, _, _, _)
AsyncCatchers(s, t, res, i) ==
  IF i > Len(s.subscriptions) THEN Reject(s, t, res)
  ELSE LET e == s.subscriptions[i]
           s1 == NotifyCatch(s, t, e, res)
       IN  IF CatchThrew(e, t)
           THEN AsyncCatchers(s1, t, res, i + 1)
           ELSE Suspend(s1, t, "catchers", i, res)

\* settle() notifying the success callbacks whatever the outcome, before the
\* catch callbacks of a failure.
AsyncSettleNotifyAnyway(s, t, ok) ==
  LET res == Result(t.call, ok)
  IN  IF ok
      THEN LET s1 == Emit(s, Completed("returned", t, res))
           IN  IF enabled THEN AsyncObservers(s1, t, res, 1) ELSE Resolve(s1, t, res)
      ELSE AsyncCatchers(SyncObservers(Emit(s, Event("threw", t, 0, res)), t, res, 1),
                         t, res, 1)

\* settle() of enqueueAsynchronousMethod after `await value(...args)`.
AsyncSettle(s, t, ok) ==
  LET res == Result(t.call, ok)
  IN  IF ok
      THEN LET s1 == Emit(s, Completed("returned", t, res))
           IN  IF enabled THEN AsyncObservers(s1, t, res, 1) ELSE Resolve(s1, t, res)
      ELSE AsyncCatchers(Emit(s, Event("threw", t, 0, res)), t, res, 1)

\* ------------------------------------------------------------ the sequencer

\* fn?.() of dequeue(), up to the await of its result. ok: whether the
\* underlying callable of a synchronous settle returns.
RunTask(s, fn, ok) ==
  IF fn.type = "remove"
  THEN Suspend([s EXCEPT !.subscriptions = Delete(@, fn.sub)], fn, "settled", 0, NoValue)
  ELSE IF typeOf(config[fn.key]) = "asyncfunction"
  THEN Suspend(Emit(s, Event("exec", fn, 0, NoValue)), Started(fn), "value", 0, NoValue)
  ELSE LET r == SyncSettle(s, fn, ok)
       IN  IF r.returned
           THEN Suspend(r.state, fn, "settled", 0, Result(fn.call, ok))
           ELSE r.state

\* dequeue() taking the newest task: queue.pop() for queue.shift().
dequeuePop(s, ok) ==
  IF Len(s.queue) = 0
  THEN [s EXCEPT !.flushing = FALSE]
  ELSE RunTask([s EXCEPT !.queue = SubSeq(@, 1, Len(@) - 1)], s.queue[Len(s.queue)], ok)

\* dequeue() clearing flushing as soon as it takes the last task.
dequeueEarlyIdle(s, ok) ==
  IF Len(s.queue) = 0
  THEN [s EXCEPT !.flushing = FALSE]
  ELSE RunTask([s EXCEPT !.queue = Tail(@), !.flushing = Len(s.queue) > 1],
               Head(s.queue), ok)

\* dequeue(): one invocation, up to its await.
dequeue(s, ok) ==
  IF Len(s.queue) = 0
  THEN [s EXCEPT !.flushing = FALSE]
  ELSE RunTask([s EXCEPT !.queue = Tail(@)], Head(s.queue), ok)

\* flush() placing initialize at the back: queue.push() for queue.unshift().
GatePush(s, key, settle) ==
  IF key = "initialize"
  THEN IF s.initialized
       THEN [error |-> OnceError, state |-> s]
       ELSE [error |-> NoValue,
             state |-> [s EXCEPT !.initialized = TRUE, !.queue = Append(@, settle)]]
  ELSE [error |-> NoValue,
        state |-> [s EXCEPT
                     !.initialized =
                       IF typeOf(config["initialize"]) = "undefined" THEN TRUE ELSE @,
                     !.queue = Append(@, settle)]]

\* flush() refusing a second initialize only after having queued it.
GateRefuseQueued(s, key, settle) ==
  IF key = "initialize"
  THEN IF s.initialized
       THEN [error |-> OnceError, state |-> [s EXCEPT !.queue = <<settle>> \o @]]
       ELSE [error |-> NoValue,
             state |-> [s EXCEPT !.initialized = TRUE, !.queue = <<settle>> \o @]]
  ELSE [error |-> NoValue,
        state |-> [s EXCEPT
                     !.initialized =
                       IF typeOf(config["initialize"]) = "undefined" THEN TRUE ELSE @,
                     !.queue = Append(@, settle)]]

\* flush() leaving initialized to be set when initialize has completed.
GateUnmarked(s, key, settle) ==
  IF key = "initialize"
  THEN IF s.initialized
       THEN [error |-> OnceError, state |-> s]
       ELSE [error |-> NoValue, state |-> [s EXCEPT !.queue = <<settle>> \o @]]
  ELSE [error |-> NoValue,
        state |-> [s EXCEPT
                     !.initialized =
                       IF typeOf(config["initialize"]) = "undefined" THEN TRUE ELSE @,
                     !.queue = Append(@, settle)]]

\* flush() without the typeOf(config.initialize) check: any call initializes.
GateOpen(s, key, settle) ==
  IF key = "initialize"
  THEN IF s.initialized
       THEN [error |-> OnceError, state |-> s]
       ELSE [error |-> NoValue,
             state |-> [s EXCEPT !.initialized = TRUE, !.queue = <<settle>> \o @]]
  ELSE [error |-> NoValue,
        state |-> [s EXCEPT !.initialized = TRUE, !.queue = Append(@, settle)]]

\* flush() without the `if (initialized)` check of initialize.
GateAgain(s, key, settle) ==
  IF key = "initialize"
  THEN [error |-> NoValue,
        state |-> [s EXCEPT !.initialized = TRUE, !.queue = <<settle>> \o @]]
  ELSE [error |-> NoValue,
        state |-> [s EXCEPT
                     !.initialized =
                       IF typeOf(config["initialize"]) = "undefined" THEN TRUE ELSE @,
                     !.queue = Append(@, settle)]]

\* flush() taking the queue to be empty when initialize is accepted:
\* `queue.splice(0, queue.length, settle)` for queue.unshift(settle).
GateAlone(s, key, settle) ==
  IF key = "initialize"
  THEN IF s.initialized
       THEN [error |-> OnceError, state |-> s]
       ELSE [error |-> NoValue,
             state |-> [s EXCEPT !.initialized = TRUE, !.queue = <<settle>>]]
  ELSE [error |-> NoValue,
        state |-> [s EXCEPT
                     !.initialized =
                       IF typeOf(config["initialize"]) = "undefined" THEN TRUE ELSE @,
                     !.queue = Append(@, settle)]]

\* The placement of settle in the queue by flush(): the error of a second
\* initialize, or the new initialized flag and queue.
Gate(s, key, settle) ==
  IF key = "initialize"
  THEN IF s.initialized
       THEN [error |-> OnceError, state |-> s]
       ELSE [error |-> NoValue,
             state |-> [s EXCEPT !.initialized = TRUE, !.queue = <<settle>> \o @]]
  ELSE [error |-> NoValue,
        state |-> [s EXCEPT
                     !.initialized =
                       IF typeOf(config["initialize"]) = "undefined" THEN TRUE ELSE @,
                     !.queue = Append(@, settle)]]

\* flush() without the flushing check: `if (!initialized)`.
StartDrainAlways(s, ok) ==
  IF ~s.initialized
  THEN s
  ELSE dequeue([s EXCEPT !.flushing = TRUE], ok)

\* flush() starting the drain without `flushing = true`.
StartDrainUnflagged(s, ok) ==
  IF ~s.initialized \/ s.flushing
  THEN s
  ELSE dequeue(s, ok)

\* flush() holding the queue back while the emitter is disabled.
StartDrainIfEnabled(s, ok) ==
  IF ~s.initialized \/ s.flushing \/ ~enabled
  THEN s
  ELSE dequeue([s EXCEPT !.flushing = TRUE], ok)

\* The end of flush(): start draining unless uninitialized or already flushing.
StartDrain(s, ok) ==
  IF ~s.initialized \/ s.flushing
  THEN s
  ELSE dequeue([s EXCEPT !.flushing = TRUE], ok)

\* flush() running settle at once when the emitter is already flushing.
flushInline(s, key, settle, ok) ==
  LET g == Gate(s, key, settle)
  IN  IF g.error # NoValue THEN g
      ELSE IF s.flushing
      THEN [error |-> NoValue, state |-> RunTask(s, settle, ok)]
      ELSE [error |-> NoValue, state |-> StartDrain(g.state, ok)]

flush(s, key, settle, ok) ==
  LET g == Gate(s, key, settle)
  IN  IF g.error # NoValue THEN g
      ELSE [error |-> NoValue, state |-> StartDrain(g.state, ok)]

\* ---------------------------------------------------------------- actions

\* enqueueAsynchronousMethod(...args): the promise it returns is rejected at
\* once when flush() returns an error.
AsyncCall(k, ok) ==
  LET c == Len(calls) + 1
      s0 == [Current EXCEPT !.promise = Append(@, [state |-> "pending", val |-> NoValue])]
      f == flush(s0, k, SettleTask(c, k), ok)
  IN  /\ calls' = Append(calls, [key |-> k, arg |-> c, returned |-> "promise", error |-> NoValue])
      /\ Commit(IF f.error = NoValue THEN f.state
                ELSE [f.state EXCEPT !.promise[c] = [state |-> "rejected", val |-> f.error]])

\* enqueueSynchronousMethod(...args): returns undefined, or throws the error
\* flush() returns.
SyncCall(k, ok) ==
  LET c == Len(calls) + 1
      s0 == [Current EXCEPT !.promise = Append(@, [state |-> "none", val |-> NoValue])]
      f == flush(s0, k, SettleTask(c, k), ok)
  IN  /\ calls' = Append(calls,
                    [key |-> k, arg |-> c,
                     returned |-> IF f.error = NoValue THEN "undefined" ELSE "throw",
                     error |-> f.error])
      /\ Commit(f.state)

\* A call of the wrapped member k from outside.
Call(k) ==
  /\ Len(calls) < MaxCalls
  /\ Ops < MaxOps
  /\ \E ok \in BOOLEAN :
       \/ /\ typeOf(config[k]) = "asyncfunction"
          /\ AsyncCall(k, ok)
       \/ /\ typeOf(config[k]) = "function"
          /\ SyncCall(k, ok)
  /\ UNCHANGED <<config, enabled, handles>>

\* The promise of value(...args) settles and the asynchronous settle() goes on.
ValueSettled(i) ==
  /\ drains[i].phase = "value"
  /\ \E ok \in BOOLEAN :
       Commit(AsyncSettle([Current EXCEPT !.drains = RemoveAt(@, i)], drains[i].task, ok))
  /\ UNCHANGED <<config, enabled, calls, handles>>

\* Whether an observer promise awaited by drain d is still unsettled.
Awaited(d) ==
  \E p \in pending : p.call = d.task.call /\ p.sub = subscriptions[d.idx].id

\* The await inside the success or catch loop of settle() ends, and the loop
\* goes on with the next entry of the Map.
ObserverSettled(i) ==
  /\ drains[i].phase \in {"observers", "catchers"}
  /\ ~Awaited(drains[i])
  /\ LET d == drains[i]
         s == [Current EXCEPT !.drains = RemoveAt(@, i)]
     IN  \/ /\ d.phase = "observers"
            /\ Commit(AsyncObservers(s, d.task, d.result, d.idx + 1))
         \/ /\ d.phase = "catchers"
            /\ Commit(AsyncCatchers(s, d.task, d.result, d.idx + 1))
  /\ UNCHANGED <<config, enabled, calls, handles>>

\* The promises the asynchronous callbacks of one subscription returned for one
\* settle are settled.
CallbackSettled(p) ==
  /\ pending' = pending \ {p}
  /\ UNCHANGED <<config, queue, subscriptions, enabled, flushing, initialized,
                 calls, promise, drains, handles, log>>

\* `await fn?.()` of dequeue() ends and dequeue() calls itself.
DequeueResumed(i) ==
  /\ drains[i].phase = "settled"
  /\ \E ok \in BOOLEAN :
       Commit(dequeue([Current EXCEPT !.drains = RemoveAt(@, i)], ok))
  /\ UNCHANGED <<config, enabled, calls, handles>>

\* subscribe() that registers only while the emitter is idle.
SubscribeWhenIdle(sub) ==
  /\ Len(handles) < MaxSubs
  /\ Ops < MaxOps
  /\ subscriptions' =
       IF flushing THEN subscriptions
       ELSE Append(subscriptions, [id |-> Len(handles) + 1, sub |-> sub])
  /\ handles' = Append(handles, 0)
  /\ UNCHANGED <<config, queue, enabled, flushing, initialized, calls, promise,
                 drains, pending, log>>

\* subscribe(subscription): a fresh key, subscriptions.set(key, subscription).
Subscribe(sub) ==
  /\ Len(handles) < MaxSubs
  /\ Ops < MaxOps
  /\ subscriptions' = Append(subscriptions, [id |-> Len(handles) + 1, sub |-> sub])
  /\ handles' = Append(handles, 0)
  /\ UNCHANGED <<config, queue, enabled, flushing, initialized, calls, promise,
                 drains, pending, log>>

\* unsubscribe() that deletes only when the emitter is idle and queues nothing.
UnsubscribeWhenIdle(h) ==
  /\ handles[h] < MaxUnsubscribe
  /\ Ops < MaxOps
  /\ handles' = [handles EXCEPT ![h] = @ + 1]
  /\ subscriptions' = IF flushing THEN subscriptions ELSE Delete(subscriptions, h)
  /\ UNCHANGED <<config, queue, enabled, flushing, initialized, calls, promise,
                 drains, pending, log>>

\* unsubscribe() that always queues the deletion.
UnsubscribeQueued(h) ==
  /\ handles[h] < MaxUnsubscribe
  /\ Ops < MaxOps
  /\ handles' = [handles EXCEPT ![h] = @ + 1]
  /\ queue' = Append(queue, RemoveTask(h))
  /\ UNCHANGED <<config, subscriptions, enabled, flushing, initialized, calls,
                 promise, drains, pending, log>>

\* unsubscribe() that always deletes at once.
UnsubscribeAtOnce(h) ==
  /\ handles[h] < MaxUnsubscribe
  /\ Ops < MaxOps
  /\ handles' = [handles EXCEPT ![h] = @ + 1]
  /\ subscriptions' = Delete(subscriptions, h)
  /\ UNCHANGED <<config, queue, enabled, flushing, initialized, calls, promise,
                 drains, pending, log>>

\* unsubscribe() queueing the deletion in front: queue.unshift() for queue.push().
UnsubscribeFront(h) ==
  /\ handles[h] < MaxUnsubscribe
  /\ Ops < MaxOps
  /\ handles' = [handles EXCEPT ![h] = @ + 1]
  /\ \/ /\ flushing
        /\ queue' = <<RemoveTask(h)>> \o queue
        /\ UNCHANGED subscriptions
     \/ /\ ~flushing
        /\ subscriptions' = Delete(subscriptions, h)
        /\ UNCHANGED queue
  /\ UNCHANGED <<config, enabled, flushing, initialized, calls, promise, drains,
                 pending, log>>

\* unsubscribe(), the function subscribe() number h returned.
Unsubscribe(h) ==
  /\ handles[h] < MaxUnsubscribe
  /\ Ops < MaxOps
  /\ handles' = [handles EXCEPT ![h] = @ + 1]
  /\ \/ /\ flushing
        /\ queue' = Append(queue, RemoveTask(h))
        /\ UNCHANGED subscriptions
     \/ /\ ~flushing
        /\ subscriptions' = Delete(subscriptions, h)
        /\ UNCHANGED queue
  /\ UNCHANGED <<config, enabled, flushing, initialized, calls, promise, drains,
                 pending, log>>

Disable ==
  /\ enabled
  /\ enabled' = FALSE
  /\ UNCHANGED <<config, queue, subscriptions, flushing, initialized, calls,
                 promise, drains, pending, handles, log>>

Enable ==
  /\ ~enabled
  /\ enabled' = TRUE
  /\ UNCHANGED <<config, queue, subscriptions, flushing, initialized, calls,
                 promise, drains, pending, handles, log>>

Next ==
  \/ \E k \in Keys : Call(k)
  \/ \E i \in DOMAIN drains : ValueSettled(i)
  \/ \E i \in DOMAIN drains : ObserverSettled(i)
  \/ \E p \in pending : CallbackSettled(p)
  \/ \E i \in DOMAIN drains : DequeueResumed(i)
  \/ \E sub \in Shapes : Subscribe(sub)
  \/ \E h \in DOMAIN handles : Unsubscribe(h)
  \/ Disable
  \/ Enable

Spec == Init /\ [][Next]_vars

\* ------------------------------------------------------ late subscribers

\* subscribe() called only while the emitter is flushing: every subscription
\* is then added after the first call was issued.
SubscribeLate(sub) == flushing /\ Subscribe(sub)

LateNext ==
  \/ \E k \in Keys : Call(k)
  \/ \E i \in DOMAIN drains : ValueSettled(i)
  \/ \E i \in DOMAIN drains : ObserverSettled(i)
  \/ \E p \in pending : CallbackSettled(p)
  \/ \E i \in DOMAIN drains : DequeueResumed(i)
  \/ \E sub \in Shapes : SubscribeLate(sub)
  \/ \E h \in DOMAIN handles : Unsubscribe(h)
  \/ Disable
  \/ Enable

\* The emitter used with every subscribe() made while it is flushing.
Late == Init /\ [][LateNext]_vars

\* ----------------------------------------------------------- nested calls

\* A call of the asynchronous member k made by the underlying callable that
\* drain i is awaiting, which then awaits the promise the call returned. The
\* idx of a drain in phase "value" is that call (0: the callable awaits
\* nothing of the emitter).
NestedCall(i, k) ==
  /\ drains[i].phase = "value" /\ drains[i].idx = 0
  /\ typeOf(config[k]) = "asyncfunction"
  /\ Len(calls) < MaxCalls
  /\ Ops < MaxOps
  /\ LET c == Len(calls) + 1
         s0 == [Current EXCEPT !.promise = Append(@, [state |-> "pending", val |-> NoValue])]
         f == flush(s0, k, SettleTask(c, k), TRUE)
         s1 == IF f.error = NoValue THEN f.state
               ELSE [f.state EXCEPT !.promise[c] = [state |-> "rejected", val |-> f.error]]
     IN  /\ calls' = Append(calls, [key |-> k, arg |-> c, returned |-> "promise", error |-> NoValue])
         /\ Commit([s1 EXCEPT !.drains[i].idx = c])
  /\ UNCHANGED <<config, enabled, handles>>

\* The same call made by an asynchronous observer callback whose promise p
\* is unsettled, which then awaits the promise the call returned.
NestedCallback(p, k) ==
  /\ p.waits = 0
  /\ typeOf(config[k]) = "asyncfunction"
  /\ Len(calls) < MaxCalls
  /\ Ops < MaxOps
  /\ LET c == Len(calls) + 1
         s0 == [Current EXCEPT !.promise = Append(@, [state |-> "pending", val |-> NoValue])]
         f == flush(s0, k, SettleTask(c, k), TRUE)
         s1 == IF f.error = NoValue THEN f.state
               ELSE [f.state EXCEPT !.promise[c] = [state |-> "rejected", val |-> f.error]]
     IN  /\ calls' = Append(calls, [key |-> k, arg |-> c, returned |-> "promise", error |-> NoValue])
         /\ Commit([s1 EXCEPT !.pending = (@ \ {p}) \cup {[p EXCEPT !.waits = c]}])
  /\ UNCHANGED <<config, enabled, handles>>

\* The promise of value(...args) settles once the callable has the result of
\* the nested call it awaits.
ValueSettledAfter(i) ==
  /\ drains[i].phase = "value"
  /\ IF drains[i].idx = 0 THEN TRUE ELSE promise[drains[i].idx].state # "pending"
  /\ ValueSettled(i)

\* The promise of an observer callback settles once the callback has the
\* result of the nested call it awaits.
CallbackSettledAfter(p) ==
  /\ IF p.waits = 0 THEN TRUE ELSE promise[p.waits].state # "pending"
  /\ CallbackSettled(p)

NestedNext ==
  \/ \E k \in Keys : Call(k)
  \/ \E i \in DOMAIN drains, k \in Keys : NestedCall(i, k)
  \/ \E p \in pending, k \in Keys : NestedCallback(p, k)
  \/ \E i \in DOMAIN drains : ValueSettledAfter(i)
  \/ \E i \in DOMAIN drains : ObserverSettled(i)
  \/ \E p \in pending : CallbackSettledAfter(p)
  \/ \E i \in DOMAIN drains : DequeueResumed(i)
  \/ \E sub \in Shapes : Subscribe(sub)
  \/ \E h \in DOMAIN handles : Unsubscribe(h)
  \/ Disable
  \/ Enable

\* The emitter with callables and callbacks that call its members.
Nested == Init /\ [][NestedNext]_vars

\* ------------------------------------------------- building the emitter

\* The members createEmitter() adds to the object it returns.
OwnKeys ==
  {"__SUBSCRIPTIONS__", "enabled", "flushing", "initialized", "disable", "enable",
   "subscribe"}

\* The keys of the configurations built: a name of the caller's own choice
\* for a value, one for a method, and a name the emitter uses itself.
BuildKeys == {"property", "method", "enabled"}

BuildConfigs == [BuildKeys -> {[tag |-> t] : t \in DOMAIN LowerCase}]

\* wrapValue(key): the wrapper of an asynchronous or synchronous function,
\* and `default: return value` for everything else.
wrapValue(cfg, key) ==
  CASE typeOf(cfg[key]) = "asyncfunction" ->
         [tag |-> "AsyncFunction", name |-> "enqueueAsynchronousMethod", of |-> key]
    [] typeOf(cfg[key]) = "function" ->
         [tag |-> "Function", name |-> "enqueueSynchronousMethod", of |-> key]
    [] OTHER -> cfg[key]

\* A getter or method of the emitter itself.
Own(key) == [tag |-> "Own", name |-> key, of |-> key]

\* createEmitter(cfg): the object literal spreads the wrapped configuration
\* first and defines the emitter's own members after it; nothing in it throws.
createEmitter(cfg) ==
  [threw |-> FALSE,
   instance |-> [k \in DOMAIN cfg \cup OwnKeys |->
                  IF k \in OwnKeys THEN Own(k) ELSE wrapValue(cfg, k)]]

\* A newly built emitter of one of the configurations above.
BuildInit ==
  /\ config \in BuildConfigs
  /\ queue = <<>>
  /\ subscriptions = <<>>
  /\ enabled = TRUE
  /\ flushing = FALSE
  /\ initialized = FALSE
  /\ calls = <<>>
  /\ promise = <<>>
  /\ drains = <<>>
  /\ pending = {}
  /\ handles = <<>>
  /\ log = <<>>

\* emitter[k] is read: a plain property access that changes nothing.
Get(k) ==
  /\ Len(log) < MaxGets
  /\ log' = Append(log, [ev |-> "get", call |-> 0, sub |-> 0, key |-> k,
                         val |-> createEmitter(config).instance[k], arg |-> 0,
                         on |-> FALSE])
  /\ UNCHANGED <<config, queue, subscriptions, enabled, flushing, initialized,
                 calls, promise, drains, pending, handles>>

BuildNext == \E k \in BuildKeys \cup OwnKeys : Get(k)

Build == BuildInit /\ [][BuildNext]_vars

\* ------------------------------------------------------- reading the state

CallIds == 1 .. Len(calls)

IsFunction(value) == typeOf(value) \in {"function", "asyncfunction"}

IsPrefix(a, b) == Len(a) <= Len(b) /\ SubSeq(b, 1, Len(a)) = a

\* The calls of the events ev of lg, in the order logged.
CallsLogged(lg, ev) ==
  LET sel == SelectSeq(lg, LAMBDA e : e.ev = ev)
  IN  [i \in DOMAIN sel |-> sel[i].call]

Logged(lg, ev, c) == \E i \in DOMAIN lg : lg[i].ev = ev /\ lg[i].call = c

\* The call was refused with the only-once error: thrown to the caller or
\* delivered through the promise.
Refused(c) ==
  \/ calls[c].returned = "throw" /\ calls[c].error = OnceError
  \/ promise[c] = [state |-> "rejected", val |-> OnceError]

\* The accepted calls in the order issued, the accepted initialize moved first.
Expected ==
  LET ids == [c \in CallIds |-> c]
      accepted == SelectSeq(ids, LAMBDA c : ~Refused(c))
  IN  SelectSeq(accepted, LAMBDA c : calls[c].key = "initialize")
        \o SelectSeq(accepted, LAMBDA c : calls[c].key # "initialize")

\* The calls whose settle task has started and not finished.
Running == {c \in CallIds : Logged(log, "exec", c) /\ ~Logged(log, "end", c)}

\* ------------------------------------------------------------------ claims

\* C1: the underlying callables are executed, and their settle tasks finish,
\* in the order the calls were issued, with only the accepted initialize call
\* moved in front of the calls already waiting; no call is overtaken.
C1_SettleInIssueOrder ==
  /\ IsPrefix(CallsLogged(log, "exec"), Expected)
  /\ IsPrefix(CallsLogged(log, "end"), CallsLogged(log, "exec"))

\* C1 witness: a synchronous and an asynchronous member were called before
\* initialize, and the three settled with initialize first.
C1_Witness ==
  /\ Len(calls) = 3
  /\ calls[1].key = "first" /\ calls[2].key = "second" /\ calls[3].key = "initialize"
  /\ CallsLogged(log, "end") = <<3, 1, 2>>

\* C2: at most one drain loop is alive and at most one task is executing; a
\* call issued while flushing is true only enqueues: it starts no drain and
\* runs nothing.
C2_SingleFlight ==
  /\ [](Len(drains) <= 1 /\ Cardinality(Running) <= 1)
  /\ [][flushing /\ Len(calls') > Len(calls) => drains' = drains /\ log' = log]_vars

\* C2 witness: an asynchronous member is suspended in its await while a call
\* issued after it waits in the queue.
C2_Witness ==
  /\ flushing
  /\ \E i \in DOMAIN drains, j \in DOMAIN queue :
       /\ drains[i].phase = "value"
       /\ queue[j].type = "settle"
       /\ queue[j].call > drains[i].task.call

\* C3: with an initialize callable, the underlying callable of any other
\* member starts only after the settle task of initialize has finished.
C3_InitializeFirst ==
  IsFunction(config["initialize"]) =>
    \A i \in DOMAIN log :
      log[i].ev = "exec" /\ log[i].key # "initialize" =>
        \E j \in 1 .. i - 1 : log[j].ev = "end" /\ log[j].key = "initialize"

\* C3 witness: a member called before initialize has been executed.
C3_Witness ==
  \E i \in DOMAIN log, c \in CallIds :
    /\ log[i].ev = "exec" /\ log[i].key # "initialize"
    /\ calls[c].key = "initialize"
    /\ log[i].call < c

\* C4: the underlying initialize is executed at most once, and every call of
\* initialize after the first fails with the only-once error.
C4_InitializeOnce ==
  /\ Cardinality({i \in DOMAIN log : log[i].ev = "exec" /\ log[i].key = "initialize"}) <= 1
  /\ \A c \in CallIds :
       calls[c].key = "initialize" /\ (\E b \in 1 .. c - 1 : calls[b].key = "initialize")
         => Refused(c)

\* C4 witness: initialize was called again while its first call was still
\* running, and that call was refused.
C4_Witness ==
  /\ \E i \in DOMAIN drains :
       drains[i].phase = "value" /\ drains[i].task.key = "initialize"
  /\ \E c \in CallIds : calls[c].key = "initialize" /\ Refused(c)

\* The settle task of call c finishes in this step, with the underlying
\* callable having returned (ok) or thrown.
Finishes(c, ok) ==
  \E i \in Len(log) + 1 .. Len(log') :
    log'[i].ev = "end" /\ log'[i].call = c /\ log'[i].val.ok = ok

\* settle() of call c read enabled as true when the underlying callable returned.
ReadEnabled(lg, c) ==
  \E i \in DOMAIN lg : lg[i].ev = "returned" /\ lg[i].call = c /\ lg[i].on

\* How often callback ev of subscription id was invoked for call c.
Count(lg, ev, c, id) ==
  Cardinality({i \in DOMAIN lg : lg[i].ev = ev /\ lg[i].call = c /\ lg[i].sub = id})

\* C5: after an underlying callable has thrown or rejected, the sequencer
\* keeps draining: a drain loop is still alive, or the queue is empty and
\* flushing is back to false.
C5_DrainsAfterFailure ==
  (\E i \in DOMAIN log : log[i].ev = "threw") =>
    \/ Len(drains) > 0
    \/ Len(queue) = 0 /\ ~flushing

\* C6: when the underlying callable of a call has thrown or rejected, the
\* promise returned to the caller of that call is rejected with that error.
C6_RejectsWithError ==
  \A c \in CallIds :
    (\E i \in DOMAIN log : log[i].ev = "end" /\ log[i].call = c /\ ~log[i].val.ok)
      => promise[c] = [state |-> "rejected", val |-> Result(c, FALSE)]

\* C7: every call of a wrapped member returns a promise, and once its settle
\* task has finished successfully that promise is resolved with the value
\* its own execution of the underlying callable returned.
C7_ReturnsPromise ==
  \A c \in CallIds :
    /\ calls[c].returned = "promise"
    /\ (\E i \in DOMAIN log : log[i].ev = "end" /\ log[i].call = c /\ log[i].val.ok)
         => promise[c] = [state |-> "resolved", val |-> Result(c, TRUE)]

\* C8: when a settle of member k that read enabled as true finishes
\* successfully, every subscription in the registry has had its k callback,
\* if defined, invoked exactly once for it, and its all callback, if defined,
\* invoked exactly once.
C8_EachNotifiedOnce ==
  [][\A c \in 1 .. Len(calls') :
       Finishes(c, TRUE) /\ ReadEnabled(log', c) =>
         \A n \in DOMAIN subscriptions' :
           LET e == subscriptions'[n]
               t == SettleTask(c, calls'[c].key)
           IN  /\ Defines(e, t, "member") => Count(log', "member", c, e.id) = 1
               /\ Defines(e, t, "all") => Count(log', "all", c, e.id) = 1]_vars

\* C9: when a settle finishes in failure, the catch callback of every
\* subscription in the registry has been invoked with the member name, the
\* error and the arguments of that call, whatever the enabled flag.
C9_CatchAlwaysNotified ==
  [][\A c \in 1 .. Len(calls') :
       Finishes(c, FALSE) =>
         \A n \in DOMAIN subscriptions' :
           LET e == subscriptions'[n]
               t == SettleTask(c, calls'[c].key)
           IN  e.sub.catch =>
                 \E i \in DOMAIN log' : log'[i] = Event("catch", t, e.id, Result(c, FALSE))]_vars

\* C9 witness: a settle has just finished in failure with enabled false, and
\* a catch callback was invoked for it.
C9_Witness ==
  /\ ~enabled
  /\ Len(log) > 0
  /\ log[Len(log)].ev = "end" /\ ~log[Len(log)].val.ok
  /\ \E i \in DOMAIN log : log[i].ev = "catch" /\ log[i].call = log[Len(log)].call

\* C10: for a call whose underlying callable failed no member callback and no
\* all callback is invoked; a successful settle of another member after such
\* a failure still invokes the member callback of every subscription that
\* defines one.
C10_NoSuccessCallbacksOnFailure ==
  /\ [](\A c \in CallIds :
          Logged(log, "threw", c) =>
            \A i \in DOMAIN log : log[i].call = c => log[i].ev \notin {"member", "all"})
  /\ [][\A d \in 1 .. Len(calls') :
          /\ Finishes(d, TRUE) /\ ReadEnabled(log', d)
          /\ \E c \in CallIds : Logged(log, "threw", c) /\ calls[c].key # calls'[d].key
          => \A n \in DOMAIN subscriptions' :
               LET e == subscriptions'[n]
               IN  Defines(e, SettleTask(d, calls'[d].key), "member")
                     => Count(log', "member", d, e.id) = 1]_vars

\* C10 witness: a member failed, and a member callback was invoked for a
\* later settle of another member.
C10_Witness ==
  \E i \in DOMAIN log, j \in DOMAIN log :
    /\ i < j
    /\ log[i].ev = "threw"
    /\ log[j].ev = "member"
    /\ log[j].key # log[i].key

\* What the caller of call c has got once its settle task has finished with
\* outcome ok: the promise of an asynchronous member settled with the outcome
\* of the underlying callable, nothing from a synchronous member.
Delivered(c, ok) ==
  IF calls[c].returned = "promise"
  THEN promise[c] = [state |-> IF ok THEN "resolved" ELSE "rejected", val |-> Result(c, ok)]
  ELSE calls[c].returned = "undefined" /\ promise[c].state = "none"

\* C11: a callback that throws (or returns a promise that rejects: the
\* emitter treats the two settlements of an awaited callback alike) changes
\* nothing else. When a settle finishes, the caller has the outcome of the
\* underlying callable; every subscription in the registry whose callbacks do
\* not throw has had its member and all callbacks invoked once (success read
\* with enabled true) or its catch callback invoked once (failure); and the
\* drain loop is alive to take the next task, unless the underlying callable
\* of a synchronous member itself threw.
C11_ObserverFailuresContained ==
  [][\A c \in 1 .. Len(calls') : \A ok \in BOOLEAN :
       Finishes(c, ok) =>
         LET t == SettleTask(c, calls'[c].key)
         IN  /\ Delivered(c, ok)'
             /\ \A n \in DOMAIN subscriptions' :
                  LET e == subscriptions'[n]
                  IN  e.sub.mode # "throw" =>
                        /\ ok /\ ReadEnabled(log', c) /\ Defines(e, t, "member")
                             => Count(log', "member", c, e.id) = 1
                        /\ ok /\ ReadEnabled(log', c) /\ Defines(e, t, "all")
                             => Count(log', "all", c, e.id) = 1
                        /\ ~ok /\ Defines(e, t, "catch")
                             => Count(log', "catch", c, e.id) = 1
             /\ ok \/ calls'[c].returned = "promise"
                  => Len(drains') = 1 /\ drains'[1].phase = "settled"]_vars

\* C11 witness: a callback of a throwing subscription was invoked for a call,
\* then a callback of another subscription for the same call, and the
\* underlying callable of a later call has been executed since.
C11_Witness ==
  \E i \in DOMAIN log, j \in DOMAIN log, k \in DOMAIN log, n \in DOMAIN subscriptions :
    /\ i < j /\ j < k
    /\ subscriptions[n].sub.mode = "throw"
    /\ log[i].ev \in {"member", "all", "catch"} /\ log[i].sub = subscriptions[n].id
    /\ log[j].ev \in {"member", "all", "catch"} /\ log[j].sub \notin {0, log[i].sub}
    /\ log[j].call = log[i].call
    /\ log[k].ev = "exec" /\ log[k].call # log[i].call

\* The settle task of call c where it waits or runs, or as the call being
\* made in this step creates it.
TaskOf(c) ==
  IF \E i \in DOMAIN drains : drains[i].task.type = "settle" /\ drains[i].task.call = c
  THEN (CHOOSE d \in {drains[i] : i \in DOMAIN drains} :
          d.task.type = "settle" /\ d.task.call = c).task
  ELSE IF \E i \in DOMAIN queue : queue[i].type = "settle" /\ queue[i].call = c
  THEN CHOOSE t \in {queue[i] : i \in DOMAIN queue} : t.type = "settle" /\ t.call = c
  ELSE SettleTask(c, "")

\* The underlying callable of call c returns in this step.
Returns(c) == ~Logged(log, "returned", c) /\ Logged(log', "returned", c)

NoSuccessCallback(lg, c) ==
  \A i \in DOMAIN lg : lg[i].call = c => lg[i].ev \notin {"member", "all"}

\* C12 as stated: for a call issued while enabled was false, no member
\* callback and no all callback is invoked when its underlying callable
\* returns, whatever enable() and disable() did in between.
C12_SuppressedFromIssue ==
  [][\A c \in 1 .. Len(calls') :
       Returns(c) /\ ~TaskOf(c).on => NoSuccessCallback(log', c)]_vars

\* C12: for every call whose underlying callable returns while enabled is
\* false, no member callback and no all callback of any subscription is ever
\* invoked, whatever the flag was when the call was issued and whatever
\* enable() and disable() do afterwards: every such callback in the log
\* belongs to a call whose settle() read enabled as true.
C12_SuppressedAtReturn ==
  \A i \in DOMAIN log :
    log[i].ev \in {"member", "all"} => ReadEnabled(log, log[i].call)

\* C12 witness: a settle that read enabled as false has finished, enabled is
\* true again, the registry holds a subscription with an all callback, and no
\* callback was invoked for that call.
C12_Witness ==
  /\ enabled
  /\ \E n \in DOMAIN subscriptions : subscriptions[n].sub.all
  /\ \E c \in CallIds :
       /\ Logged(log, "end", c)
       /\ Logged(log, "returned", c) /\ ~ReadEnabled(log, c)
       /\ \A i \in DOMAIN log : log[i].sub = 0

\* The settle task of call c waits in the queue.
Queued(c) == \E i \in DOMAIN queue : queue[i].type = "settle" /\ queue[i].call = c

\* C13: enabled gates nothing but the success fan-out. A call made while
\* enabled is false is refused only as a second initialize; otherwise its task
\* is enqueued and the queue is drained as always: the task waits only for
\* initialize or behind a drain in progress, or has been started at once. A
\* settle that finishes while enabled is false delivers the outcome of the
\* underlying callable and leaves the drain loop alive like any other.
C13_EnabledGatesNothing ==
  [][\A c \in 1 .. MaxCalls :
       /\ ~enabled /\ Len(calls) = c - 1 /\ Len(calls') = c
            => \/ Refused(c)'
               \/ Queued(c)' /\ ~initialized'
               \/ flushing' /\ (Queued(c)' \/ Logged(log', "exec", c))
       /\ \A ok \in BOOLEAN :
            ~enabled /\ c <= Len(calls') /\ Finishes(c, ok)
              => /\ Delivered(c, ok)'
                 /\ ok \/ calls'[c].returned = "promise"
                      => Len(drains') = 1 /\ drains'[1].phase = "settled"]_vars

\* C13 witness: enabled is false, an asynchronous call settled without
\* fan-out and its promise is resolved, and the call issued after it has
\* been executed.
C13_Witness ==
  /\ ~enabled
  /\ \E c \in CallIds :
       /\ Logged(log, "returned", c) /\ ~ReadEnabled(log, c)
       /\ promise[c].state = "resolved"
       /\ Logged(log, "exec", c + 1)

\* C14: no callback of a subscription is invoked for a call issued after
\* its unsubscribe() returned, whether unsubscribe() deleted it at once or
\* queued the deletion: every callback invoked in a step belongs to a
\* subscription that was not yet unsubscribed when the call was issued.
C14_SilentAfterUnsubscribe ==
  [][\A i \in DOMAIN log' :
       i > Len(log) /\ log'[i].sub # 0
         => log'[i].sub \notin TaskOf(log'[i].call).gone]_vars

\* C14 witness: a subscription was notified for one call and unsubscribed,
\* and a call issued after that has settled without any of its callbacks.
C14_Witness ==
  \E i \in DOMAIN drains, j \in DOMAIN log :
    LET d == drains[i]
    IN  /\ d.task.type = "settle" /\ d.phase = "settled"
        /\ log[j].sub \in d.task.gone
        /\ log[j].call < d.task.call
        /\ \A k \in DOMAIN log : log[k].call = d.task.call => log[k].sub = 0

\* Whether subscription h is in the registry.
Registered(subs, h) == \E n \in DOMAIN subs : subs[n].id = h

\* C15: a call of unsubscribe() while flushing is false removes the
\* subscription from the registry in that very step and leaves the queue as
\* it was.
C15_IdleUnsubscribeAtOnce ==
  [][\A h \in DOMAIN handles :
       handles'[h] > handles[h] /\ ~flushing
         => ~Registered(subscriptions', h) /\ queue' = queue]_vars

\* C15 witness: nothing has run yet, calls wait in the queue for initialize,
\* and a subscription has been unsubscribed and is gone.
C15_Witness ==
  /\ ~flushing /\ log = <<>>
  /\ Len(queue) > 0
  /\ \A i \in DOMAIN queue : queue[i].type = "settle"
  /\ \E h \in DOMAIN handles : handles[h] > 0 /\ ~Registered(subscriptions, h)

\* C16: a subscription unsubscribed while flushing is true leaves the
\* registry only when its queued deletion is taken from the head of the queue:
\* no task is running then, and every settle task still waiting was issued
\* after the unsubscribe() returned. Whenever flushing turns false, every
\* subscription whose unsubscribe() has been called is out of the registry.
C16_DeferredUnsubscribe ==
  [][\A h \in DOMAIN handles :
       /\ flushing /\ Registered(subscriptions, h) /\ ~Registered(subscriptions', h)
            => /\ Len(queue) > 0 /\ Head(queue) = RemoveTask(h)
               /\ Running = {}
               /\ \A i \in DOMAIN queue : queue[i].type = "settle" => h \in queue[i].gone
       /\ flushing /\ ~flushing' /\ handles[h] > 0
            => ~Registered(subscriptions', h)]_vars

\* C16 witness: an asynchronous member is running, unsubscribe() has been
\* called since, and the subscription is still in the registry with its
\* deletion waiting in the queue.
C16_Witness ==
  /\ flushing
  /\ \E i \in DOMAIN drains : drains[i].phase = "value"
  /\ \E h \in DOMAIN handles :
       /\ handles[h] > 0
       /\ Registered(subscriptions, h)
       /\ \E i \in DOMAIN queue : queue[i] = RemoveTask(h)

InitializeCalled == \E c \in CallIds : calls[c].key = "initialize"

\* The settle task of initialize waits in the queue or is executing.
InitializeInProgress ==
  \/ \E i \in DOMAIN queue : queue[i].type = "settle" /\ queue[i].key = "initialize"
  \/ \E c \in Running : calls[c].key = "initialize"

\* C18 as stated: with an initialize callable, initialized is false in every
\* state where initialize is still queued or running.
C18_InitializedAfterCompletion ==
  IsFunction(config["initialize"]) /\ InitializeInProgress => ~initialized

\* C18: with an initialize callable, initialized is true from the call of
\* initialize on, so already while its underlying callable is running, and
\* false as long as initialize has not been called.
C18_InitializedFromCall ==
  IsFunction(config["initialize"]) =>
    /\ initialized <=> InitializeCalled
    /\ initialized \/ ~InitializeInProgress

\* C18 witness: the underlying callable of initialize has not returned yet
\* and initialized is true.
C18_Witness ==
  /\ initialized
  /\ \E i \in DOMAIN drains :
       /\ drains[i].phase = "value" /\ drains[i].task.key = "initialize"
       /\ ~Logged(log, "returned", drains[i].task.call)
       /\ ~Logged(log, "threw", drains[i].task.call)

\* C19: when config.initialize is not a callable, absent or not, the first
\* call of a member sets initialized and is drained at once: when the call
\* returns, initialized is true and its underlying callable has been
\* executed.
C19_NoInitializeNoWait ==
  ~IsFunction(config["initialize"]) /\ Len(calls) > 0
    => initialized /\ Logged(log, "exec", 1)

\* C20: with an initialize callable that has not been called, calls of other
\* members are only enqueued: initialized and flushing are false, nothing has
\* been executed, and the queue holds the settle tasks of the calls in order.
C20_WaitsForInitialize ==
  IsFunction(config["initialize"]) /\ ~InitializeCalled =>
    /\ ~initialized /\ ~flushing
    /\ log = <<>>
    /\ Len(queue) = Len(calls)
    /\ \A c \in CallIds : queue[c].type = "settle" /\ queue[c].call = c

\* C20 witness: two members were called before initialize and wait.
C20_Witness ==
  /\ IsFunction(config["initialize"]) /\ ~InitializeCalled
  /\ Len(calls) >= 2
  /\ Len(queue) = Len(calls)

\* C21: a call of initialize that is refused changes nothing of the emitter:
\* the queue, initialized, flushing, enabled and the registry are as before
\* the call, no drain is started and nothing is executed or notified.
C21_RefusedInitializeChangesNothing ==
  [][\A c \in 1 .. MaxCalls :
       Len(calls) = c - 1 /\ Len(calls') = c /\ Refused(c)'
         => /\ queue' = queue
            /\ initialized' = initialized /\ flushing' = flushing /\ enabled' = enabled
            /\ subscriptions' = subscriptions
            /\ drains' = drains /\ log' = log]_vars

\* C21 witness: the latest call is a refused initialize, made while the
\* emitter was flushing with a task waiting in the queue and a subscription
\* in the registry.
C21_Witness ==
  /\ Len(calls) > 0 /\ Refused(Len(calls))
  /\ flushing /\ Len(queue) > 0 /\ Len(subscriptions) > 0

\* C22: every member or all callback is invoked with the data of the call
\* being settled: the arguments of that call, its member name, and the value
\* its own execution of the underlying callable returned before.
C22_CallbacksGetOwnData ==
  \A i \in DOMAIN log :
    log[i].ev \in {"member", "all"} =>
      /\ log[i].arg = calls[log[i].call].arg
      /\ log[i].key = calls[log[i].call].key
      /\ log[i].val = Result(log[i].call, TRUE)
      /\ \E j \in 1 .. i - 1 :
           /\ log[j].ev = "returned" /\ log[j].call = log[i].call
           /\ log[j].val = log[i].val

\* C22 witness: callbacks are being invoked for one call while the settle
\* task of a later call, with other arguments, waits in the queue.
C22_Witness ==
  \E d \in DOMAIN drains, q \in DOMAIN queue, i \in DOMAIN log :
    /\ drains[d].phase = "observers"
    /\ log[i].ev \in {"member", "all"} /\ log[i].call = drains[d].task.call
    /\ queue[q].type = "settle" /\ queue[q].arg # log[i].arg

\* C23: a member callback is invoked only for settles of the member it is
\* registered under: every member callback invoked in a step belongs to a
\* subscription of the registry whose callback name is the member of the call
\* being settled.
C23_MemberCallbackOnlyForItsMember ==
  [][\A i \in DOMAIN log' :
       i > Len(log) /\ log'[i].ev = "member"
         => \E n \in DOMAIN subscriptions :
              /\ subscriptions[n].id = log'[i].sub
              /\ subscriptions[n].sub.member = calls'[log'[i].call].key]_vars

\* C23 witness: a settle that notified has finished; a subscription
\* registered under another member had its all callback invoked for it and
\* its member callback not.
C23_Witness ==
  \E c \in CallIds, n \in DOMAIN subscriptions :
    /\ Logged(log, "end", c) /\ ReadEnabled(log, c)
    /\ subscriptions[n].sub.member # calls[c].key
    /\ Count(log, "all", c, subscriptions[n].id) = 1
    /\ Count(log, "member", c, subscriptions[n].id) = 0

\* A value that can be called.
Callable(value) == value.tag \in {"Function", "AsyncFunction", "GeneratorFunction"}

\* Whether x is a wrapper createEmitter() made for member k.
IsWrapperOf(x, k) ==
  /\ x.name \in {"enqueueAsynchronousMethod", "enqueueSynchronousMethod"}
  /\ x.of = k

\* C24: every key of the configuration is exposed on the emitter, whatever
\* its name: reading it yields the configured value unchanged when that is
\* not callable, and the wrapper of the member when it is.
C24_EveryKeyExposed ==
  \A i \in DOMAIN log :
    log[i].ev = "get" /\ log[i].key \in DOMAIN config =>
      IF Callable(config[log[i].key])
      THEN IsWrapperOf(log[i].val, log[i].key)
      ELSE log[i].val = config[log[i].key]

\* C25: building an emitter fails when a value of the configuration is
\* callable and is neither a function nor an asynchronous function for
\* typeOf().
C25_UnrecognizedCallableFailsBuild ==
  (\E k \in DOMAIN config :
     Callable(config[k]) /\ typeOf(config[k]) \notin {"function", "asyncfunction"})
    => createEmitter(config).threw

\* C26: no wake-up is lost. Whenever tasks wait in the queue while flushing
\* is true, a drain loop is alive that will take them with no further call
\* from outside: an invocation of dequeue() is suspended in its await, be it
\* during a task or between the end of a task and the check of the queue.
C26_NoLostWakeUp == flushing /\ Len(queue) > 0 => Len(drains) > 0

\* C27: when a settle finishes, which is when an asynchronous member's
\* promise is resolved or rejected, every promise returned by a callback
\* invoked for it has settled; and when the underlying callable of the next
\* task is started, no callback promise of another call is unsettled.
C27_CallbacksCompleteBeforeEnd ==
  [][/\ \A c \in 1 .. Len(calls') : \A ok \in BOOLEAN :
          Finishes(c, ok) => \A p \in pending' : p.call # c
     /\ \A i \in DOMAIN log' :
          i > Len(log) /\ log'[i].ev = "exec"
            => \A p \in pending' : p.call = log'[i].call]_vars

\* C28: within one settle the subscriptions are notified concurrently. When
\* the underlying callable returns and the notification is suspended on the
\* unsettled promise of one subscription's callback, every other subscription
\* that was in the registry and defines a callback for the settle has been
\* notified already: none waits for that promise.
C28_NotifiedConcurrently ==
  [][\A c \in 1 .. Len(calls') :
       Returns(c) =>
         \A d \in DOMAIN drains' :
           /\ drains'[d].phase = "observers"
           /\ \E p \in pending' :
                p.call = c /\ p.sub = subscriptions'[drains'[d].idx].id
           => \A n \in DOMAIN subscriptions :
                LET e == subscriptions[n]
                    t == SettleTask(c, calls'[c].key)
                IN  Defines(e, t, "member") \/ Defines(e, t, "all")
                      => \E i \in DOMAIN log' :
                           log'[i].call = c /\ log'[i].sub = e.id]_vars

\* C29: the member callback and the all callback of one subscription are
\* invoked independently. When a settle that read enabled as true finishes
\* successfully, every subscription in the registry whose member callback was
\* invoked, and threw, has had its all callback, if defined, invoked once.
C29_AllDespiteMemberThrow ==
  [][\A c \in 1 .. Len(calls') :
       Finishes(c, TRUE) /\ ReadEnabled(log', c) =>
         \A n \in DOMAIN subscriptions' :
           LET e == subscriptions'[n]
               t == SettleTask(c, calls'[c].key)
           IN  /\ e.sub.mode = "throw"
               /\ Defines(e, t, "member") /\ Count(log', "member", c, e.id) = 1
               /\ Defines(e, t, "all")
               => Count(log', "all", c, e.id) = 1]_vars

\* The enabled flag as it was when the settle task of call c was started: now,
\* unless its underlying callable is being awaited.
RanOn(c) ==
  IF \E i \in DOMAIN drains : drains[i].phase = "value" /\ drains[i].task.call = c
  THEN TaskOf(c).ran
  ELSE enabled

\* C30 as stated: a toggle made while a settle task is executing does not
\* change whether its observers are notified. When the underlying callable
\* returns, no success callback is invoked if enabled was false when the task
\* was started, and the first subscription of the registry is notified if it
\* was true.
C30_DecidedAtStart ==
  [][\A c \in 1 .. Len(calls') :
       Returns(c) =>
         /\ ~RanOn(c) => NoSuccessCallback(log', c)
         /\ /\ RanOn(c)
            /\ Len(subscriptions) > 0
            /\ Defines(subscriptions[1], SettleTask(c, calls'[c].key), "all")
            => ~NoSuccessCallback(log', c)]_vars

\* C30: enable() and disable() change the flag at once and nothing else. The
\* fan-out of a settle is decided by the flag as it is when the underlying
\* callable returns, so a toggle made while the callable is awaited does
\* decide it; a toggle made after that, while the observers of the settle are
\* being notified, changes nothing for that settle.
C30_DecidedAtReturn ==
  [][/\ enabled' # enabled =>
          UNCHANGED <<config, queue, subscriptions, flushing, initialized, calls,
                      promise, drains, pending, handles, log>>
     /\ \A i \in Len(log) + 1 .. Len(log') :
          LET c == log'[i].call
          IN  /\ log'[i].ev = "returned" => (log'[i].on <=> enabled)
              /\ log'[i].ev = "end" /\ log'[i].val.ok =>
                   IF ReadEnabled(log', c)
                   THEN \A n \in DOMAIN subscriptions' :
                          LET e == subscriptions'[n]
                              t == SettleTask(c, calls'[c].key)
                          IN  e.sub.mode # "throw" /\ Defines(e, t, "all")
                                => Count(log', "all", c, e.id) = 1
                   ELSE NoSuccessCallback(log', c)]_vars

\* C30 witness: the emitter was disabled while the observers of a settle
\* that read enabled as true were being notified, with a subscription still
\* to come.
C30_Witness ==
  /\ ~enabled
  /\ \E d \in DOMAIN drains :
       /\ drains[d].phase = "observers"
       /\ drains[d].idx < Len(subscriptions)
       /\ ReadEnabled(log, drains[d].task.call)

\* Whether entry e has a callback that call task t can notify.
Observes(e, t) ==
  Defines(e, t, "member") \/ Defines(e, t, "all") \/ Defines(e, t, "catch")

\* C31 as stated: in every state, a subscription leaves the registry only
\* after every call issued before its unsubscribe(): when an entry is
\* deleted, no settle task that was issued before the unsubscribe() and that
\* the entry has a callback for is still waiting in the queue.
C31_RemovedAfterEarlierCalls ==
  [][\A n \in DOMAIN subscriptions :
       LET e == subscriptions[n]
       IN  ~Registered(subscriptions', e.id) =>
             \A i \in DOMAIN queue :
               queue[i].type = "settle" /\ e.id \notin queue[i].gone
                 => ~Observes(e, queue[i])]_vars

\* C31: while flushing is true, unsubscribe() only appends the deletion to
\* the back of the queue, behind every task already waiting. The entry then
\* leaves the registry when no settle task issued before the unsubscribe() is
\* waiting or running, and a settle that finishes while the deletion is
\* still queued has invoked the callbacks the entry defines for it. While
\* flushing is false the entry is deleted at once, calls waiting for
\* initialize or not.
C31_DeferredBehindEarlierCalls ==
  [][/\ \A h \in DOMAIN handles :
          /\ handles'[h] > handles[h] =>
               IF flushing
               THEN queue' = Append(queue, RemoveTask(h)) /\ subscriptions' = subscriptions
               ELSE queue' = queue /\ ~Registered(subscriptions', h)
          /\ flushing /\ Registered(subscriptions, h) /\ ~Registered(subscriptions', h)
               => /\ \A i \in DOMAIN queue :
                       queue[i].type = "settle" => h \in queue[i].gone
                  /\ \A i \in DOMAIN drains :
                       drains[i].task.type = "settle" => drains[i].phase = "settled"
     /\ \A i \in Len(log) + 1 .. Len(log') :
          log'[i].ev = "end" =>
            LET c == log'[i].call
                t == SettleTask(c, calls'[c].key)
            IN  \A n \in DOMAIN subscriptions' :
                  LET e == subscriptions'[n]
                  IN  (\E q \in DOMAIN queue' : queue'[q] = RemoveTask(e.id)) =>
                        IF log'[i].val.ok
                        THEN ReadEnabled(log', c)
                               /\ (Defines(e, t, "member") \/ Defines(e, t, "all"))
                               => \E j \in DOMAIN log' :
                                    /\ log'[j].call = c /\ log'[j].sub = e.id
                                    /\ log'[j].ev \in {"member", "all"}
                        ELSE Defines(e, t, "catch")
                               => \E j \in DOMAIN log' :
                                    /\ log'[j].call = c /\ log'[j].sub = e.id
                                    /\ log'[j].ev = "catch"]_vars

\* C31 witness: while a task is running, a subscription was unsubscribed
\* with an earlier call it has a callback for still waiting: its deletion is
\* queued behind that call, and it is still in the registry.
C31_Witness ==
  /\ flushing
  /\ \E d \in DOMAIN drains : drains[d].phase # "settled"
  /\ \E n \in DOMAIN subscriptions, i \in DOMAIN queue, j \in DOMAIN queue :
       LET e == subscriptions[n]
       IN  /\ i < j
           /\ queue[i].type = "settle" /\ e.id \notin queue[i].gone
           /\ Observes(e, queue[i])
           /\ queue[j] = RemoveTask(e.id)

\* The first call of initialize is accepted in this step.
InitializeAccepted ==
  /\ Len(calls') > Len(calls)
  /\ calls'[Len(calls')].key = "initialize"
  /\ ~initialized

\* C32 as stated: whenever the first call of initialize is accepted, the
\* queue is empty.
C32_NothingWaitsForInitialize ==
  [][InitializeAccepted => queue = <<>>]_vars

\* C32: calls of other members made before initialize are appended to the
\* queue and wait there with flushing false. When the first call of
\* initialize is accepted its settle task goes in front of them and is
\* started in that very step; the waiting tasks stay queued behind it, in
\* their order, and only initialize has run.
C32_InitializeOvertakesWaiting ==
  [][InitializeAccepted =>
       /\ ~flushing /\ log = <<>> /\ drains = <<>>
       /\ \A i \in DOMAIN queue : queue[i].type = "settle" /\ queue[i].key # "initialize"
       /\ initialized' /\ flushing'
       /\ queue' = queue
       /\ Len(log') > 0
       /\ log'[1].ev = "exec"
       /\ \A i \in DOMAIN log' : log'[i].call = Len(calls')]_vars

\* C32 witness: initialize was accepted with an earlier call waiting in the
\* queue; initialize has been started and the earlier call still waits.
C32_Witness ==
  /\ Len(log) > 0
  /\ log[1].ev = "exec" /\ log[1].key = "initialize"
  /\ \E i \in DOMAIN queue :
       queue[i].type = "settle" /\ queue[i].call < log[1].call
  /\ \A i \in DOMAIN log : log[i].key = "initialize"

\* C33: subscribe() puts the entry at the end of the registry at once and
\* touches nothing else, flushing or not. When a settle finishes, every
\* subscription added so far and not unsubscribed is in the registry and has
\* had a callback it defines for the call invoked (on success read with
\* enabled true: its member or all callback; on failure: its catch callback),
\* whether it was added before or after the call was issued; and every
\* callback invoked in a step belongs to an entry of the registry.
C33_NotifiedAsRegisteredAtSettle ==
  [][/\ Len(handles') > Len(handles) =>
          /\ Len(subscriptions') = Len(subscriptions) + 1
          /\ SubSeq(subscriptions', 1, Len(subscriptions)) = subscriptions
          /\ subscriptions'[Len(subscriptions')].id = Len(handles')
          /\ queue' = queue /\ log' = log
     /\ \A i \in Len(log) + 1 .. Len(log') :
          LET c == log'[i].call
              t == SettleTask(c, calls'[c].key)
          IN  /\ log'[i].sub # 0 => Registered(subscriptions', log'[i].sub)
              /\ log'[i].ev = "end" =>
                   \A h \in DOMAIN handles' :
                     handles'[h] = 0 =>
                       \E n \in DOMAIN subscriptions' :
                         LET e == subscriptions'[n]
                         IN  /\ e.id = h
                             /\ IF log'[i].val.ok
                                THEN ReadEnabled(log', c)
                                       /\ (Defines(e, t, "member") \/ Defines(e, t, "all"))
                                       => \E j \in DOMAIN log' :
                                            /\ log'[j].call = c /\ log'[j].sub = h
                                            /\ log'[j].ev \in {"member", "all"}
                                ELSE Defines(e, t, "catch")
                                       => \E j \in DOMAIN log' :
                                            /\ log'[j].call = c /\ log'[j].sub = h
                                            /\ log'[j].ev = "catch"]_vars

\* C33 witness: the first call has settled successfully and a subscription,
\* added while the emitter was flushing and so after that call was issued,
\* had a success callback invoked for it.
C33_Witness ==
  /\ Len(calls) > 0 /\ promise[1].state = "resolved"
  /\ \E j \in DOMAIN log :
       log[j].call = 1 /\ log[j].sub # 0 /\ log[j].ev \in {"member", "all"}

\* C34: whenever initialized is true and flushing is false, the queue is
\* empty, no invocation of dequeue() is suspended and no settle task has
\* started without having finished; so tasks wait in the queue with flushing
\* false only while initialized is false, before anything has run.
C34_IdleMeansEmpty ==
  /\ flushing \/ ~initialized \/ (queue = <<>> /\ drains = <<>> /\ Running = {})
  /\ flushing \/ queue = <<>> \/ (~initialized /\ log = <<>> /\ drains = <<>>)

\* C34 witness: the emitter has drained its queue and is idle again, after
\* at least two settles.
C34_Witness ==
  /\ initialized /\ ~flushing
  /\ Len(CallsLogged(log, "end")) >= 2

\* The underlying initialize callable has failed.
InitializeFailed ==
  \E i \in DOMAIN log : log[i].ev = "threw" /\ log[i].key = "initialize"

\* C35: once the underlying initialize has failed, initialized stays true
\* and every further call of initialize is refused with the only-once error;
\* and when it fails with calls waiting behind it, a drain loop is left alive
\* to execute them.
C35_FailedInitializeStillOpens ==
  [][/\ InitializeFailed =>
          /\ initialized'
          /\ \A d \in 1 .. MaxCalls :
               Len(calls) < d /\ Len(calls') = d /\ calls'[d].key = "initialize"
                 => Refused(d)'
     /\ \A i \in Len(log) + 1 .. Len(log') :
          log'[i].ev = "threw" /\ log'[i].key = "initialize"
            => initialized' /\ (queue' # <<>> => drains' # <<>>)]_vars

\* A task is executing: its underlying callable or its observers are awaited.
Executing == \E d \in DOMAIN drains : drains[d].phase # "settled"

\* The executing task waits for the promise of a nested call: its callable
\* awaits it, or an observer callback the settle is awaiting does.
Stuck ==
  \E d \in DOMAIN drains :
    \/ /\ drains[d].phase = "value"
       /\ drains[d].idx > 0
       /\ promise[drains[d].idx].state = "pending"
    \/ /\ drains[d].phase \in {"observers", "catchers"}
       /\ \E p \in pending :
            /\ p.call = drains[d].task.call
            /\ p.sub = subscriptions[drains[d].idx].id
            /\ p.waits > 0
            /\ promise[p.waits].state = "pending"

\* C36: a call of a wrapped member made while a task is executing, from
\* inside the task or from outside, runs nothing in that step: its settle task
\* goes to the back of the queue, or it is a repeated initialize and is
\* refused. An underlying callable is started only when every task started
\* before it has finished. Once the executing task waits for the promise of
\* such a call, nothing is executed any more: the log and the suspended
\* dequeue() stay as they are, flushing stays true and the task still waits.
C36_NestedCallsQueueBehind ==
  [][/\ \A c \in 1 .. MaxCalls :
          Executing /\ Len(calls) < c /\ Len(calls') = c =>
            /\ log' = log
            /\ \/ queue' = Append(queue, SettleTask(c, calls'[c].key))
               \/ calls'[c].key = "initialize" /\ Refused(c)' /\ queue' = queue
     /\ \A i \in Len(log) + 1 .. Len(log') :
          log'[i].ev = "exec" =>
            \A j \in 1 .. i - 1 :
              log'[j].ev = "exec" =>
                \E m \in j + 1 .. i - 1 :
                  log'[m].ev = "end" /\ log'[m].call = log'[j].call
     /\ Stuck => log' = log /\ flushing' /\ Len(drains') = Len(drains) /\ Stuck']_vars

\* C36 witness: the underlying callable of a running task awaits the promise
\* of a call it made, that call waits in the queue, and a call made after it
\* waits behind it.
C36_Witness ==
  \E d \in DOMAIN drains, i \in DOMAIN queue, j \in DOMAIN queue :
    /\ drains[d].phase = "value" /\ drains[d].idx > 0
    /\ queue[i].type = "settle" /\ queue[i].call = drains[d].idx
    /\ i < j /\ queue[j].type = "settle"

====
